---- MODULE Spec2Model ----
(***************************************************************************)
(* csv-ingest: the streaming path (reader_from_path, build_csv_reader,     *)
(* process_csv_stream), the strict verifier of the bench tool              *)
(* (verify_and_count), the memory-mapped parallel fast path                *)
(* (fast_local_process), the metadata resolver and the transcoder.         *)
(*                                                                         *)
(* A byte is a one-character string; a string of the program (a header     *)
(* name, a content type, a file name) is a sequence of such characters, so *)
(* that splitting, trimming, lower-casing and suffix tests are computed    *)
(* as the code computes them.                                              *)
(***************************************************************************)
EXTENDS Integers, Sequences, FiniteSets, TLC

\* ------------------------------------------------------------------ bounds

\* Longest file (in bytes) of the exhaustive file set.
MaxLen == 5

\* Largest number of cores num_cpus::get() reports.
MaxCores == 2

\* Most rows and most columns the generator is asked for.
MaxRows == 3

MaxCols == 2

\* Largest row limit passed to the verifier.
MaxLimit == 2

\* Longest byte stream given to the transcoder.
MaxCodecLen == 4

\* ------------------------------------------------------------ byte strings

Comma == ","

LF == "\n"

\* The bytes the exhaustive files are made of: two letters, the delimiter
\* and the line break (no quote and no carriage return: the fast path supports
\* neither).
Alphabet == {"a", "b", Comma, LF}

Files == UNION {[1..n -> Alphabet] : n \in 0..MaxLen}

\* Index of the first occurrence of byte d in s, 0 when there is none
\* (memchr).
FirstIndex(s, d) ==
    IF \E i \in 1..Len(s) : s[i] = d
    THEN CHOOSE i \in 1..Len(s) : s[i] = d /\ \A j \in 1..(i - 1) : s[j] # d
    ELSE 0

\* s split on every occurrence of d: k occurrences give k + 1 pieces
\* (str::split, and the delimiter walk of both parsers).
RECURSIVE SplitOn(_, _)
SplitOn(s, d) ==
    LET i == FirstIndex(s, d)
    IN  IF i = 0
        THEN <<s>>
        ELSE <<SubSeq(s, 1, i - 1)>> \o SplitOn(SubSeq(s, i + 1, Len(s)), d)

EndsWith(s, suf) ==
    /\ Len(suf) <= Len(s)
    /\ SubSeq(s, Len(s) - Len(suf) + 1, Len(s)) = suf

\* Position (0-based, as Iterator::position) of the first element of seq
\* equal to x, or -1 for None.
Position(seq, x) ==
    IF \E i \in 1..Len(seq) : seq[i] = x
    THEN (CHOOSE i \in 1..Len(seq) : seq[i] = x /\ \A j \in 1..(i - 1) : seq[j] # x) - 1
    ELSE -1


\* ---------------------------------------------------- strings of the program

Str_gzip == <<"g", "z", "i", "p">>

Str_zstd == <<"z", "s", "t", "d">>

Str_application_gzip ==
    <<"a", "p", "p", "l", "i", "c", "a", "t", "i", "o", "n", "/", "g", "z", "i", "p">>

Str_application_x_gzip ==
    <<"a", "p", "p", "l", "i", "c", "a", "t", "i", "o", "n", "/", "x", "-", "g", "z", "i", "p">>

Str_application_zstd ==
    <<"a", "p", "p", "l", "i", "c", "a", "t", "i", "o", "n", "/", "z", "s", "t", "d">>

Str_text_csv == <<"t", "e", "x", "t", "/", "c", "s", "v">>

Str_dot_gz == <<".", "g", "z">>

Str_dot_zst == <<".", "z", "s", "t">>

Str_gz == <<"g", "z">>

Str_zst == <<"z", "s", "t">>

UpperLetters ==
    <<"A", "B", "C", "D", "E", "F", "G", "H", "I", "J", "K", "L", "M",
      "N", "O", "P", "Q", "R", "S", "T", "U", "V", "W", "X", "Y", "Z">>

LowerLetters ==
    <<"a", "b", "c", "d", "e", "f", "g", "h", "i", "j", "k", "l", "m",
      "n", "o", "p", "q", "r", "s", "t", "u", "v", "w", "x", "y", "z">>

\* str::to_ascii_lowercase
ToAsciiLowercase(s) ==
    [i \in 1..Len(s) |->
        IF Position(UpperLetters, s[i]) >= 0
        THEN LowerLetters[Position(UpperLetters, s[i]) + 1]
        ELSE s[i]]

RECURSIVE TrimStart(_)
TrimStart(s) == IF s # <<>> /\ Head(s) = " " THEN TrimStart(Tail(s)) ELSE s

RECURSIVE TrimEnd(_)
TrimEnd(s) ==
    IF s # <<>> /\ s[Len(s)] = " " THEN TrimEnd(SubSeq(s, 1, Len(s) - 1)) ELSE s

\* str::trim
Trim(s) == TrimEnd(TrimStart(s))

\* Whether some comma-separated token of ce, trimmed, is tok.
HasToken(ce, tok) ==
    LET toks == SplitOn(ce, Comma)
    IN  \E i \in 1..Len(toks) : Trim(toks[i]) = tok

\* ------------------------------------------------------------ io.rs: CsvMeta

UTF_8 == "UTF-8"

SHIFT_JIS == "Shift_JIS"

\* CsvMeta::default
DefaultMeta ==
    [content_type |-> <<>>, content_encoding |-> <<>>, name_hint |-> <<>>,
     charset |-> UTF_8]

IsGzip(meta) ==
    LET ce == ToAsciiLowercase(meta.content_encoding)
        ct == ToAsciiLowercase(meta.content_type)
    IN  \/ HasToken(ce, Str_gzip)
        \/ ct \in {Str_application_gzip, Str_application_x_gzip}
        \/ EndsWith(meta.name_hint, Str_dot_gz)

IsZstd(meta) ==
    LET ce == ToAsciiLowercase(meta.content_encoding)
        ct == ToAsciiLowercase(meta.content_type)
    IN  \/ HasToken(ce, Str_zstd)
        \/ ct = Str_application_zstd
        \/ EndsWith(meta.name_hint, Str_dot_zst)

\* A reader that wraps the source in no decoder.
Decompression_never(meta) == "none"

\* The decompression build_csv_reader wraps the source in.
Decompression(meta) ==
    IF IsGzip(meta) THEN "gzip" ELSE IF IsZstd(meta) THEN "zstd" ELSE "none"

\* Whether build_csv_reader puts the Transcoder in the pipeline.
Transcodes(meta) == meta.charset # UTF_8

\* Path::extension of a file name: what follows the last dot, nothing for a
\* name without a dot or with only a leading one.
Extension(name) ==
    LET parts == SplitOn(name, ".")
    IN  IF Len(parts) < 2 \/ (Len(parts) = 2 /\ parts[1] = <<>>)
        THEN <<>>
        ELSE parts[Len(parts)]

\* The meta reader_from_path derives from the file name.
PathMeta(name) ==
    LET ext == Extension(name)
    IN  IF ext = Str_gz
        THEN [DefaultMeta EXCEPT !.name_hint = name,
                                 !.content_type = Str_application_gzip,
                                 !.content_encoding = Str_gzip]
        ELSE IF ext = Str_zst
        THEN [DefaultMeta EXCEPT !.name_hint = name,
                                 !.content_type = Str_application_zstd,
                                 !.content_encoding = Str_zstd]
        ELSE [DefaultMeta EXCEPT !.name_hint = name,
                                 !.content_type = Str_text_csv]

\* ------------------------------------------------- compressed byte streams
\* A compressed stream is its format's magic number followed by the payload;
\* a decoder fails on a stream that does not start with its magic number.

GzipMagic == "<1f8b>"

ZstdMagic == "<28b52ffd>"

Compress(format, data) ==
    IF format = "gzip" THEN <<GzipMagic>> \o data
    ELSE IF format = "zstd" THEN <<ZstdMagic>> \o data
    ELSE data

\* What the reader build_csv_reader returns yields for the bytes on disk:
\* ok = FALSE is the I/O error of a malformed compressed stream.
ReadAll(format, disk) ==
    IF format = "none"
    THEN [ok |-> TRUE, data |-> disk]
    ELSE IF disk # <<>> /\ Head(disk) = (IF format = "gzip" THEN GzipMagic ELSE ZstdMagic)
    THEN [ok |-> TRUE, data |-> Tail(disk)]
    ELSE [ok |-> FALSE, data |-> <<>>]

\* reader_from_path: the decoded byte stream of the file `name` holding
\* `disk`.
ReaderFromPath(name, disk) == ReadAll(Decompression(PathMeta(name)), disk)

\* ------------------------------------------------------ csv_async's reader

\* The records of a byte stream: its non-empty lines (the reader skips empty
\* lines; a last line needs no line break), each split on the delimiter.
CsvRecords(data) ==
    LET lines == SelectSeq(SplitOn(data, LF), LAMBDA l : l # <<>>)
    IN  [i \in 1..Len(lines) |-> SplitOn(lines[i], Comma)]

\* ------------------------------------------------------ results and errors

NoError == [kind |-> "None", name |-> <<>>, row |-> 0, expected |-> 0, actual |-> 0]

MissingHeader(name) == [NoError EXCEPT !.kind = "MissingHeader", !.name = name]

IoError == [NoError EXCEPT !.kind = "Io"]

\* anyhow!("fast path failed to parse header")
HeaderError == [NoError EXCEPT !.kind = "Header"]

Pending == [tag |-> "Pending", row_count |-> 0, headers |-> <<>>, error |-> NoError]

Ok(n, h) == [tag |-> "Ok", row_count |-> n, headers |-> h, error |-> NoError]

Err(e) == [tag |-> "Err", row_count |-> 0, headers |-> <<>>, error |-> e]

\* ------------------------------------------- required-header resolution

\* The indices (into required) of the names that are not in headers.
Absent(headers, required) ==
    {i \in 1..Len(required) : Position(headers, required[i]) = -1}

Min(S) == CHOOSE x \in S : \A y \in S : x <= y

\* A resolution that reports the last absent name.
FirstMissing_last(headers, required) ==
    required[CHOOSE i \in Absent(headers, required) :
                \A j \in Absent(headers, required) : j <= i]

\* The name the collect::<Result<_>> of the position lookups fails with: the
\* first absent one, in the order of required.
FirstMissing(headers, required) == required[Min(Absent(headers, required))]

\* headers.iter().position(..) for every required name, in the caller's order.
RequiredIndices(headers, required) ==
    [i \in 1..Len(required) |-> Position(headers, required[i])]

\* A field check that takes the record's last field for a missing one.
FieldMissing_last(record, idx) == idx + 1 >= Len(record)

\* record.get(idx).is_none()
FieldMissing(record, idx) == idx >= Len(record)

\* The first position i (in the order of required) whose column the record
\* lacks, 0 when it has them all.
FirstMissingField(record, required_indices) ==
    LET bad == {i \in 1..Len(required_indices) :
                    FieldMissing(record, required_indices[i])}
    IN  IF bad = {} THEN 0 ELSE Min(bad)

\* ------------------------------------------------------------------- state

VARIABLES
    input,      \* the call's arguments and the file they name
    stream,     \* process_csv_stream / verify_and_count: reader and locals
    fast,       \* fast_local_process: locals, workers, shared atomics
    resolver,   \* build_csv_reader on caller-supplied meta
    codec       \* a Transcoder, its source buffer and what it emitted

vars == <<input, stream, fast, resolver, codec>>

None == [some |-> FALSE, val |-> 0]

Some(n) == [some |-> TRUE, val |-> n]

\* ------------------------------------------------------------------ inputs

\* Header names a caller may require.
Names == {<<"a">>, <<"b">>}

\* Required-header lists: no name, one name, two names in either order, and
\* a repeated name.
RequiredLists ==
    {<<>>} \cup {<<n>> : n \in Names} \cup {<<n, m>> : n \in Names, m \in Names}

Formats == {"none", "gzip", "zstd"}

\* The name of a file of each format, as the tests and the bench name them.
FileName(format) ==
    IF format = "gzip" THEN <<"t", ".", "c", "s", "v", ".", "g", "z">>
    ELSE IF format = "zstd" THEN <<"t", ".", "c", "s", "v", ".", "z", "s", "t">>
    ELSE <<"t", ".", "c", "s", "v">>

IdleInput ==
    [mode |-> "idle", name |-> <<>>, plain |-> <<>>, disk |-> <<>>,
     required |-> <<>>, cores |-> 1, verify |-> FALSE, limit |-> None]

IdleStream ==
    [pc |-> "idle", reader_ok |-> TRUE, rdr |-> <<>>, headers |-> <<>>,
     required_indices |-> <<>>, row_count |-> 0, rows_read |-> 0,
     crc |-> <<>>, result |-> Pending]


StartResolver(meta) ==
    [pc |-> "start", meta |-> meta, choice |-> "none", transcode |-> FALSE]

IdleResolver == [StartResolver(DefaultMeta) EXCEPT !.pc = "idle"]

\* A FramedRead over a source holding `bytes`, with a fresh Transcoder.
StartCodec(bytes) ==
    [pc |-> "run", bytes |-> bytes, remaining |-> bytes, src |-> <<>>,
     lead |-> FALSE, out |-> <<>>, frames |-> <<>>, eof |-> FALSE,
     is_readable |-> FALSE, eof_calls |-> 0]

IdleCodec == [StartCodec(<<>>) EXCEPT !.pc = "idle"]

\* ------------------------------------------------- streaming path (lib.rs)

\* reader_from_path, then AsyncReaderBuilder::create_reader: the reader over
\* the file's decoded bytes. Nothing is read yet.
StreamOpen ==
    /\ input.mode \in {"stream", "both"}
    /\ stream.pc = "start"
    /\ LET r == ReaderFromPath(input.name, input.disk)
       IN  stream' = [stream EXCEPT !.pc = "headers",
                                    !.reader_ok = r.ok,
                                    !.rdr = CsvRecords(r.data)]
    /\ UNCHANGED <<input, fast, resolver, codec>>

\* rdr.headers().await?: the first record, or an empty one when the stream
\* has none; an I/O error of the source is returned.
StreamHeaders ==
    /\ stream.pc = "headers"
    /\ IF ~stream.reader_ok
       THEN stream' = [stream EXCEPT !.pc = "done", !.result = Err(IoError)]
       ELSE stream' = [stream EXCEPT
                !.pc = "resolve",
                !.headers = IF stream.rdr = <<>> THEN <<>> ELSE Head(stream.rdr),
                !.rdr = IF stream.rdr = <<>> THEN <<>> ELSE Tail(stream.rdr)]
    /\ UNCHANGED <<input, fast, resolver, codec>>

\* required_indices: every required name's position, or MissingHeader of the
\* first absent one.
StreamResolve ==
    /\ stream.pc = "resolve"
    /\ IF Absent(stream.headers, input.required) # {}
       THEN stream' = [stream EXCEPT
                !.pc = "done",
                !.result = Err(MissingHeader(FirstMissing(stream.headers, input.required)))]
       ELSE stream' = [stream EXCEPT
                !.pc = "rows",
                !.required_indices = RequiredIndices(stream.headers, input.required)]
    /\ UNCHANGED <<input, fast, resolver, codec>>

\* The error process_csv_stream returns for a record that lacks the field of
\* required[i].
StreamFieldError(row, i) == MissingHeader(input.required[i])

\* One turn of the while loop: a record is read and counted, then checked
\* for a field at every required index.
StreamReadRow ==
    /\ stream.pc = "rows"
    /\ stream.rdr # <<>>
    /\ LET record == Head(stream.rdr)
           n == stream.row_count + 1
           i == FirstMissingField(record, stream.required_indices)
       IN  IF i # 0
           THEN stream' = [stream EXCEPT
                    !.pc = "done", !.rdr = Tail(stream.rdr),
                    !.row_count = n, !.rows_read = stream.rows_read + 1,
                    !.result = Err(StreamFieldError(n, i))]
           ELSE stream' = [stream EXCEPT
                    !.rdr = Tail(stream.rdr),
                    !.row_count = n, !.rows_read = stream.rows_read + 1]
    /\ UNCHANGED <<input, fast, resolver, codec>>

\* read_byte_record returns false: the summary is returned.
StreamFinish ==
    /\ stream.pc = "rows"
    /\ stream.rdr = <<>>
    /\ stream' = [stream EXCEPT !.pc = "done",
                                !.result = Ok(stream.row_count, stream.headers)]
    /\ UNCHANGED <<input, fast, resolver, codec>>

\* ------------------------------------------------------ fast path (fast.rs)
\* Offsets are 0-based, as in the code: data[i] of the code is data[i + 1]
\* here, and &data[s..e] is Slice(data, s, e).

Slice(data, s, e) == SubSeq(data, s + 1, e)

\* memchr(b, &data[from..]).map(|off| from + off): the offset of the first b
\* at or after from, -1 for None.
FindFrom(data, b, from) ==
    IF \E i \in from..(Len(data) - 1) : data[i + 1] = b
    THEN CHOOSE i \in from..(Len(data) - 1) :
            data[i + 1] = b /\ \A j \in from..(i - 1) : data[j + 1] # b
    ELSE -1

\* header_end: the offset of the first line break, or len.
HeaderEnd(data) ==
    IF FindFrom(data, LF, 0) = -1 THEN Len(data) ELSE FindFrom(data, LF, 0)

\* The header fields: the header slice split on the delimiter.
FastHeaders(data) == SplitOn(Slice(data, 0, HeaderEnd(data)), Comma)

\* A body that starts at the header's line break instead of after it.
BodyStart_at_line_break(data) == HeaderEnd(data)

\* body_start = (header_end + 1).min(len)
BodyStart(data) ==
    IF HeaderEnd(data) + 1 < Len(data) THEN HeaderEnd(data) + 1 ELSE Len(data)

\* sort_unstable of a sequence of numbers.
RECURSIVE SortAscending(_)
SortAscending(seq) ==
    IF seq = <<>>
    THEN <<>>
    ELSE LET m == Min({seq[i] : i \in 1..Len(seq)})
             k == CHOOSE i \in 1..Len(seq) : seq[i] = m
         IN  <<m>> \o SortAscending(SubSeq(seq, 1, k - 1) \o SubSeq(seq, k + 1, Len(seq)))

\* The while loop that snaps the even split forward to line starts.
RECURSIVE StartsLoop(_, _, _, _, _)
StartsLoop(data, cores, approx, starts, pos) ==
    IF Len(starts) < cores /\ pos < Len(data)
    THEN LET nl == FindFrom(data, LF, pos)
             next == IF nl = -1 THEN Len(data) ELSE nl + 1
             pushed == Append(starts, IF next < Len(data) THEN next ELSE Len(data))
         IN  StartsLoop(data, cores, approx, pushed,
                        BodyStart(data) + Len(pushed) * approx)
    ELSE starts

\* Chunk boundaries left at the even split, not moved to a line start.
ChunkStarts_unsnapped(data, cores) ==
    LET approx == Len(data) \div cores
        inner == {k \in 1..(cores - 1) : BodyStart(data) + k * approx < Len(data)}
    IN  <<BodyStart(data)>>
        \o [k \in 1..Cardinality(inner) |-> BodyStart(data) + k * approx]
        \o <<Len(data)>>

\* starts: the chunk boundaries, from body_start to len.
ChunkStarts(data, cores) ==
    LET approx == Len(data) \div cores
    IN  Append(StartsLoop(data, cores, approx, <<BodyStart(data)>>,
                          BodyStart(data) + approx),
               Len(data))

\* The unit separator folded between two fields of a row.
UnitSeparator == "<1f>"

\* The bytes one row feeds to the chunk's hasher: the walk over the row's
\* bytes from offset i, with col_start, col_idx and req_it as in the code.
RECURSIVE RowWalk(_, _, _, _, _, _, _)
RowWalk(row, req, verify_crc, i, col_start, col_idx, req_it) ==
    IF i >= Len(row)
    THEN \* last field
         IF col_idx \in {req[k] : k \in 1..Len(req)} /\ verify_crc
         THEN (IF req_it > 0 THEN <<UnitSeparator>> ELSE <<>>)
              \o Slice(row, col_start, Len(row))
         ELSE <<>>
    ELSE IF row[i + 1] # Comma
    THEN RowWalk(row, req, verify_crc, i + 1, col_start, col_idx, req_it)
    ELSE LET hit == col_idx \in {req[k] : k \in 1..Len(req)} /\ verify_crc
             fed == IF hit
                    THEN (IF req_it > 0 THEN <<UnitSeparator>> ELSE <<>>)
                         \o Slice(row, col_start, i)
                    ELSE <<>>
             it == IF hit THEN req_it + 1 ELSE req_it
         IN  IF req # <<>> /\ col_idx + 1 > req[Len(req)]
             THEN \* early exit; the last-field step follows the loop
                  fed \o (IF (col_idx + 1) \in {req[k] : k \in 1..Len(req)} /\ verify_crc
                          THEN (IF it > 0 THEN <<UnitSeparator>> ELSE <<>>)
                               \o Slice(row, i + 1, Len(row))
                          ELSE <<>>)
             ELSE fed \o RowWalk(row, req, verify_crc, i + 1, i + 1, col_idx + 1, it)

\* A fold that feeds one field for every entry of req, instead of walking
\* the row's columns.
RowFold_per_entry(row, req, verify_crc) ==
    LET fields == SplitOn(row, Comma)
        picked == SelectSeq(req, LAMBDA i : i < Len(fields))
        RECURSIVE Join(_)
        Join(n) == IF n = 0 THEN <<>>
                   ELSE IF n = 1 THEN fields[picked[1] + 1]
                   ELSE Join(n - 1) \o <<UnitSeparator>> \o fields[picked[n] + 1]
    IN  IF verify_crc THEN Join(Len(picked)) ELSE <<>>

\* What a row adds to local_crc.
RowFold(row, req, verify_crc) ==
    IF req # <<>> \/ verify_crc
    THEN RowWalk(row, req, verify_crc, 0, 0, 0, 0)
    ELSE <<>>

\* A limit tested with > instead of >=: one row too many.
LimitReached_late(limit, processed) == limit.some /\ processed > limit.val

\* Whether the worker leaves its loop after a row: processed >= lim.
LimitReached(limit, processed) == limit.some /\ processed >= limit.val

\* A worker's loop over the line breaks of its slice, from cursor on: the
\* rows it counted and the bytes it fed to its hasher.
RECURSIVE ScanLoop(_, _, _, _, _, _, _)
ScanLoop(slice, req, verify_crc, limit, cursor, count, fed) ==
    LET nl == FindFrom(slice, LF, cursor)
    IN  IF nl = -1
        THEN [count |-> count, fed |-> fed]
        ELSE LET row == Slice(slice, cursor, nl)
                 fed2 == fed \o RowFold(row, req, verify_crc)
             IN  IF LimitReached(limit, count + 1)
                 THEN [count |-> count + 1, fed |-> fed2]
                 ELSE ScanLoop(slice, req, verify_crc, limit, nl + 1, count + 1, fed2)

ScanChunk(slice, req, verify_crc, limit) ==
    ScanLoop(slice, req, verify_crc, limit, 0, 0, <<>>)

\* A join that forgets the last line without a line break.
TailRows_none(data) == 0

\* The rows added after the join for a last line without a line break.
TailRows(data) ==
    IF Len(data) > BodyStart(data) /\ data[Len(data)] # LF THEN 1 ELSE 0

\* ---------------------------------------------------------------- CRC-32
\* A 32-bit word is its two 16-bit halves, each a number.

CodeTable ==
    << <<"a", 97>>, <<"b", 98>>, <<Comma, 44>>, <<LF, 10>>, <<UnitSeparator, 31>>,
       <<"0", 48>>, <<"1", 49>>, <<"2", 50>>, <<"3", 51>>, <<"4", 52>>,
       <<"5", 53>>, <<"6", 54>>, <<"7", 55>>, <<"8", 56>>, <<"9", 57>>,
       <<"S", 83>>, <<"K", 75>>, <<"U", 85>>, <<"_", 95>>, <<"c", 99>>,
       <<"k", 107>>, <<"l", 108>>, <<"o", 111>>, <<"s", 115>>, <<"u", 117>>,
       <<"v", 118>> >>

\* The value of a byte.
ByteCode(c) == CodeTable[CHOOSE i \in 1..Len(CodeTable) : CodeTable[i][1] = c][2]

\* Bitwise exclusive or of two 16-bit numbers.
RECURSIVE Xor16(_, _)
Xor16(x, y) ==
    IF x = 0 THEN y
    ELSE IF y = 0 THEN x
    ELSE ((x + y) % 2) + 2 * Xor16(x \div 2, y \div 2)

Zero32 == [hi |-> 0, lo |-> 0]

\* No checksum is returned.
NoCrc == [some |-> FALSE, val |-> Zero32]

XorBits(x, y) == [hi |-> Xor16(x.hi, y.hi), lo |-> Xor16(x.lo, y.lo)]

\* 0xEDB88320
Crc32Poly == [hi |-> 60856, lo |-> 33568]

\* One bit of the reflected CRC: shift right, and fold the polynomial in
\* when the bit shifted out is set.
CrcShift(c) ==
    LET s == [hi |-> c.hi \div 2, lo |-> (c.lo \div 2) + (c.hi % 2) * 32768]
    IN  IF c.lo % 2 = 1 THEN XorBits(s, Crc32Poly) ELSE s

RECURSIVE CrcRounds(_, _)
CrcRounds(c, n) == IF n = 0 THEN c ELSE CrcRounds(CrcShift(c), n - 1)

\* The byte-indexed table of the hasher.
CrcTable == [i \in 0..255 |-> CrcRounds([hi |-> 0, lo |-> i], 8)]

Word32 == [hi : 0..65535, lo : 0..65535]

ShiftRight8(c) ==
    [hi |-> c.hi \div 256, lo |-> (c.lo \div 256) + (c.hi % 256) * 256]

\* The register after one more byte.
CrcByte(c, b) == XorBits(ShiftRight8(c), CrcTable[Xor16(c.lo % 256, b)])

\* The hasher's register after the bytes fed.
CrcUpdate(bytes) ==
    LET feed[c \in Word32, i \in 1..(Len(bytes) + 1)] ==
            IF i > Len(bytes)
            THEN c
            ELSE feed[CrcByte(c, ByteCode(bytes[i])), i + 1]
    IN  feed[[hi |-> 65535, lo |-> 65535], 1]

\* Hasher::new, update over the bytes fed, finalize.
Crc32(bytes) ==
    LET c == CrcUpdate(bytes)
    IN  [hi |-> 65535 - c.hi, lo |-> 65535 - c.lo]

\* --------------------------------------------- fast path: the state machine

StartFast ==
    [pc |-> "start", headers |-> <<>>, required_indices |-> <<>>,
     starts |-> <<>>, workers |-> <<>>, total |-> 0, crc_total |-> Zero32,
     result |-> Pending, crc |-> NoCrc]

\* The file is mapped; an empty file returns at once; the header line is
\* split and the required names resolved and sorted, or the call fails.
FastHeader ==
    /\ \/ input.mode = "fast"
       \/ input.mode = "both" /\ stream.pc = "done"
    /\ fast.pc = "start"
    /\ LET data == input.disk
           headers == FastHeaders(data)
       IN  IF Len(data) = 0
           THEN fast' = [fast EXCEPT !.pc = "done", !.result = Ok(0, <<>>)]
           ELSE IF Absent(headers, input.required) # {}
           THEN fast' = [fast EXCEPT
                    !.pc = "done", !.headers = headers,
                    !.result = Err(MissingHeader(FirstMissing(headers, input.required)))]
           ELSE fast' = [fast EXCEPT
                    !.pc = "partition", !.headers = headers,
                    !.required_indices =
                        SortAscending(RequiredIndices(headers, input.required))]
    /\ UNCHANGED <<input, stream, resolver, codec>>

\* The chunk boundaries are computed and the shared totals created.
FastPartition ==
    /\ fast.pc = "partition"
    /\ fast' = [fast EXCEPT !.pc = "spawn",
                            !.starts = ChunkStarts(input.disk, input.cores),
                            !.total = 0, !.crc_total = Zero32]
    /\ UNCHANGED <<input, stream, resolver, codec>>

\* s.spawn for the next window of starts.
FastSpawn ==
    /\ fast.pc = "spawn"
    /\ Len(fast.workers) < Len(fast.starts) - 1
    /\ LET k == Len(fast.workers) + 1
       IN  fast' = [fast EXCEPT !.workers = Append(fast.workers,
                        [pc |-> "scan", start |-> fast.starts[k],
                         end |-> fast.starts[k + 1], count |-> 0, fed |-> <<>>])]
    /\ UNCHANGED <<input, stream, resolver, codec>>

\* A worker scans its slice (private state only) and adds its count to the
\* shared total (fetch_add).
WorkerScan(w) ==
    /\ fast.pc = "spawn"
    /\ w \in 1..Len(fast.workers)
    /\ fast.workers[w].pc = "scan"
    /\ LET me == fast.workers[w]
           r == ScanChunk(Slice(input.disk, me.start, me.end),
                          fast.required_indices, input.verify, input.limit)
       IN  fast' = [fast EXCEPT
                !.workers[w] = [me EXCEPT
                    !.pc = IF input.verify THEN "xor" ELSE "done",
                    !.count = r.count, !.fed = r.fed],
                !.total = fast.total + r.count]
    /\ UNCHANGED <<input, stream, resolver, codec>>

\* A worker that stores its digest in the shared checksum instead of
\* folding it in.
WorkerXor_store(w) ==
    /\ fast.pc = "spawn"
    /\ w \in 1..Len(fast.workers)
    /\ fast.workers[w].pc = "xor"
    /\ fast' = [fast EXCEPT
            !.workers[w].pc = "done",
            !.crc_total = Crc32(fast.workers[w].fed)]
    /\ UNCHANGED <<input, stream, resolver, codec>>

\* A verifying worker finalizes its hasher and folds the digest into the
\* shared checksum (fetch_xor).
WorkerXor(w) ==
    /\ fast.pc = "spawn"
    /\ w \in 1..Len(fast.workers)
    /\ fast.workers[w].pc = "xor"
    /\ fast' = [fast EXCEPT
            !.workers[w].pc = "done",
            !.crc_total = XorBits(fast.crc_total, Crc32(fast.workers[w].fed))]
    /\ UNCHANGED <<input, stream, resolver, codec>>

\* thread::scope returns once every worker was spawned and has finished; the
\* totals are read, the unterminated last line added, the result returned.
FastJoin ==
    /\ fast.pc = "spawn"
    /\ Len(fast.workers) = Len(fast.starts) - 1
    /\ \A w \in 1..Len(fast.workers) : fast.workers[w].pc = "done"
    /\ fast' = [fast EXCEPT
            !.pc = "done",
            !.result = IF fast.headers = <<>>
                       THEN Err(HeaderError)
                       ELSE Ok(fast.total + TailRows(input.disk), fast.headers),
            !.crc = IF input.verify /\ fast.headers # <<>>
                    THEN Some(fast.crc_total) ELSE NoCrc]
    /\ UNCHANGED <<input, stream, resolver, codec>>

\* ------------------------------------ strict verification (bench.rs)

\* The reader's own error for a record whose length differs from the first
\* record's (flexible(false)): it carries the record's index (the header is
\* record 0), the expected and the found length.
UnequalLengths(row, expected, actual) ==
    [NoError EXCEPT !.kind = "UnequalLengths", !.row = row,
                    !.expected = expected, !.actual = actual]

\* anyhow!("Row {} width mismatch: got {}, expected {}")
WidthMismatch(row, expected, actual) ==
    [NoError EXCEPT !.kind = "WidthMismatch", !.row = row,
                    !.expected = expected, !.actual = actual]

\* anyhow!("Row {} missing required field '{}'")
RequiredFieldMissing(row, name) ==
    [NoError EXCEPT !.kind = "RequiredFieldMissing", !.row = row, !.name = name]

\* The bytes a record feeds to the checksum: its fields, a unit separator
\* before every field but the first.
RECURSIVE RecordFold(_, _)
RecordFold(record, fi) ==
    IF fi > Len(record)
    THEN <<>>
    ELSE (IF fi > 1 THEN <<UnitSeparator>> ELSE <<>>) \o record[fi]
         \o RecordFold(record, fi + 1)

\* A turn that numbers the rows from 0.
VerifyTurn_from_zero(record, n, width, required_indices, required) ==
    IF Len(record) # width
    THEN UnequalLengths(n - 1, width, Len(record))
    ELSE IF FirstMissingField(record, required_indices) # 0
    THEN RequiredFieldMissing(n - 1, required[FirstMissingField(record, required_indices)])
    ELSE NoError

\* One turn of verify_and_count's loop on the next record, the n-th after
\* the header: the error it returns (NoError when the record passes).
VerifyTurn(record, n, width, required_indices, required) ==
    IF Len(record) # width
    THEN \* read_byte_record fails before the loop body runs
         UnequalLengths(n, width, Len(record))
    ELSE IF Len(record) # width
    THEN WidthMismatch(n, width, Len(record))
    ELSE IF FirstMissingField(record, required_indices) # 0
    THEN RequiredFieldMissing(n, required[FirstMissingField(record, required_indices)])
    ELSE NoError

VerifyOpen ==
    /\ input.mode = "verify"
    /\ stream.pc = "start"
    /\ LET r == ReaderFromPath(input.name, input.disk)
       IN  stream' = [stream EXCEPT !.pc = "headers",
                                    !.reader_ok = r.ok,
                                    !.rdr = CsvRecords(r.data)]
    /\ UNCHANGED <<input, fast, resolver, codec>>

\* rdr.headers().await?.clone(); width = headers.len()
VerifyHeaders ==
    /\ input.mode = "verify"
    /\ stream.pc = "headers"
    /\ IF ~stream.reader_ok
       THEN stream' = [stream EXCEPT !.pc = "done", !.result = Err(IoError)]
       ELSE stream' = [stream EXCEPT
                !.pc = "resolve",
                !.headers = IF stream.rdr = <<>> THEN <<>> ELSE Head(stream.rdr),
                !.rdr = IF stream.rdr = <<>> THEN <<>> ELSE Tail(stream.rdr)]
    /\ UNCHANGED <<input, fast, resolver, codec>>

VerifyResolve ==
    /\ input.mode = "verify"
    /\ stream.pc = "resolve"
    /\ IF Absent(stream.headers, input.required) # {}
       THEN stream' = [stream EXCEPT
                !.pc = "done",
                !.result = Err(MissingHeader(FirstMissing(stream.headers, input.required)))]
       ELSE stream' = [stream EXCEPT
                !.pc = "rows",
                !.required_indices = RequiredIndices(stream.headers, input.required)]
    /\ UNCHANGED <<input, fast, resolver, codec>>

\* One turn of the loop: the record is read (and refused by the reader when
\* its length is not the header's), counted, checked, folded into the
\* checksum; the loop is left once row_count reaches the limit.
VerifyReadRow ==
    /\ input.mode = "verify"
    /\ stream.pc = "rows"
    /\ stream.rdr # <<>>
    /\ LET record == Head(stream.rdr)
           n == stream.row_count + 1
           e == VerifyTurn(record, n, Len(stream.headers),
                           stream.required_indices, input.required)
       IN  IF e # NoError
           THEN stream' = [stream EXCEPT
                    !.pc = "done", !.rdr = Tail(stream.rdr),
                    !.row_count = IF e.kind = "UnequalLengths"
                                  THEN stream.row_count ELSE n,
                    !.rows_read = stream.rows_read + 1,
                    !.result = Err(e)]
           ELSE stream' = [stream EXCEPT
                    !.pc = IF input.limit.some /\ n >= input.limit.val
                           THEN "limit" ELSE "rows",
                    !.rdr = Tail(stream.rdr),
                    !.row_count = n, !.rows_read = stream.rows_read + 1,
                    !.crc = stream.crc \o RecordFold(record, 1)]
    /\ UNCHANGED <<input, fast, resolver, codec>>

\* The loop has ended (no record left, or the limit was reached): the
\* checksum is finalized and the summary returned.
VerifyFinish ==
    /\ input.mode = "verify"
    /\ \/ stream.pc = "rows" /\ stream.rdr = <<>>
       \/ stream.pc = "limit"
    /\ stream' = [stream EXCEPT !.pc = "done",
                                !.result = Ok(stream.row_count, stream.headers)]
    /\ UNCHANGED <<input, fast, resolver, codec>>

\* ------------------------------------------------ the generator (gen.rs)

Digits == <<"0", "1", "2", "3", "4", "5", "6", "7", "8", "9">>

\* format!("{}", n)
RECURSIVE Decimal(_)
Decimal(n) ==
    IF n < 10 THEN <<Digits[n + 1]>> ELSE Decimal(n \div 10) \o <<Digits[(n % 10) + 1]>>

\* format!("{:010}", n)
ZeroPad10(n) ==
    LET d == Decimal(n)
    IN  [i \in 1..(IF Len(d) < 10 THEN 10 - Len(d) ELSE 0) |-> "0"] \o d

\* "sku", then delim and "col{i}" for i in 1..cols, then the line break.
GenHeader(cols, delim) ==
    LET RECURSIVE Cols(_)
        Cols(i) == IF i >= cols
                   THEN <<>>
                   ELSE delim \o <<"c", "o", "l">> \o Decimal(i) \o Cols(i + 1)
    IN  <<"s", "k", "u">> \o Cols(1) \o <<LF>>

\* "SKU{:010}", then delim and "v{c}_{i}" for c in 1..cols, then the line
\* break.
GenRow(i, cols, delim) ==
    LET RECURSIVE Cols(_)
        Cols(c) == IF c >= cols
                   THEN <<>>
                   ELSE delim \o <<"v">> \o Decimal(c) \o <<"_">> \o Decimal(i)
                        \o Cols(c + 1)
    IN  <<"S", "K", "U">> \o ZeroPad10(i) \o Cols(1) \o <<LF>>

\* What gen writes to its standard output.
GenFile(rows, cols, with_header, delim) ==
    LET RECURSIVE Rows(_)
        Rows(i) == IF i >= rows THEN <<>> ELSE GenRow(i, cols, delim) \o Rows(i + 1)
    IN  (IF with_header THEN GenHeader(cols, delim) ELSE <<>>) \o Rows(0)

\* --------------------------------------- the metadata resolver as called

\* build_csv_reader on the caller's meta: the decompression and whether the
\* transcoder is used.
BuildCsvReader ==
    /\ resolver.pc = "start"
    /\ resolver' = [resolver EXCEPT !.pc = "done",
                                    !.choice = Decompression(resolver.meta),
                                    !.transcode = Transcodes(resolver.meta)]
    /\ UNCHANGED <<input, stream, fast, codec>>

\* ------------------------------------------------- transcoder (codec.rs)
\* The source charset is Shift_JIS, through three of its bytes: an ASCII
\* byte that is no trail byte, the lead byte 0x82 (itself a valid trail
\* byte), and 0xA0, a valid trail byte that is an error on its own.

Ascii == Comma

Lead == "<82>"

Trail == "<a0>"

CodecBytes == {Ascii, Lead, Trail}

\* U+FFFD in UTF-8
Replacement == <<"<ef>", "<bf>", "<bd>">>

\* The UTF-8 of the character a lead byte and a trail byte make:
\* 0x82 0xA0 is U+3042, 0x82 0x82 is U+FF42.
DoubleByte(trail) ==
    IF trail = Trail THEN <<"<e3>", "<81>", "<82>">> ELSE <<"<ef>", "<bd>", "<82>">>

\* encoding_rs's Decoder::decode_to_utf8(src, dst, last) for a dst that is
\* large enough (max_utf8_buffer_length* is, for this charset): every byte
\* of src is read; a lead byte at the end of src stays in the decoder unless
\* last, when it is replaced by U+FFFD.
RECURSIVE DecodeToUtf8(_, _, _)
DecodeToUtf8(lead, src, last) ==
    IF src = <<>>
    THEN IF lead /\ last
         THEN [out |-> Replacement, lead |-> FALSE]
         ELSE [out |-> <<>>, lead |-> lead]
    ELSE LET b == Head(src)
         IN  IF lead
             THEN IF b = Ascii
                  THEN \* error; the ASCII byte is decoded again
                       LET r == DecodeToUtf8(FALSE, Tail(src), last)
                       IN  [r EXCEPT !.out = Replacement \o <<b>> \o r.out]
                  ELSE LET r == DecodeToUtf8(FALSE, Tail(src), last)
                       IN  [r EXCEPT !.out = DoubleByte(b) \o r.out]
             ELSE IF b = Ascii
             THEN LET r == DecodeToUtf8(FALSE, Tail(src), last)
                  IN  [r EXCEPT !.out = <<b>> \o r.out]
             ELSE IF b = Lead
             THEN DecodeToUtf8(TRUE, Tail(src), last)
             ELSE LET r == DecodeToUtf8(FALSE, Tail(src), last)
                  IN  [r EXCEPT !.out = Replacement \o r.out]

\* A decode that starts from a fresh decoder at every call.
TranscoderDecode_stateless(lead, src) ==
    IF src = <<>>
    THEN [some |-> FALSE, frame |-> <<>>, src |-> src, lead |-> FALSE]
    ELSE LET r == DecodeToUtf8(FALSE, src, FALSE)
         IN  [some |-> TRUE, frame |-> r.out, src |-> <<>>, lead |-> r.lead]

\* Transcoder::decode: None on an empty source; otherwise the source is
\* decoded (last = false), advanced by what was read, and the output
\* returned as one chunk, empty or not.
TranscoderDecode(lead, src) ==
    IF src = <<>>
    THEN [some |-> FALSE, frame |-> <<>>, src |-> src, lead |-> lead]
    ELSE LET r == DecodeToUtf8(lead, src, FALSE)
         IN  [some |-> TRUE, frame |-> r.out, src |-> <<>>, lead |-> r.lead]

\* Transcoder::decode_eof: None on an empty buffer; otherwise the buffer is
\* decoded with last = true and cleared, and a non-empty output returned.
TranscoderDecodeEof(lead, buf) ==
    IF buf = <<>>
    THEN [some |-> FALSE, frame |-> <<>>, src |-> buf, lead |-> lead]
    ELSE LET r == DecodeToUtf8(lead, buf, TRUE)
         IN  [some |-> r.out # <<>>, frame |-> r.out, src |-> <<>>, lead |-> r.lead]

\* FramedRead reads the next n bytes of the source into the buffer.
CodecRead(n) ==
    /\ codec.pc = "run"
    /\ ~codec.is_readable /\ ~codec.eof
    /\ n \in 1..Len(codec.remaining)
    /\ codec' = [codec EXCEPT
            !.src = codec.src \o SubSeq(codec.remaining, 1, n),
            !.remaining = SubSeq(codec.remaining, n + 1, Len(codec.remaining)),
            !.is_readable = TRUE]
    /\ UNCHANGED <<input, stream, fast, resolver>>

\* The source is exhausted: a read of 0 bytes.
CodecReadEof ==
    /\ codec.pc = "run"
    /\ ~codec.is_readable /\ ~codec.eof
    /\ codec.remaining = <<>>
    /\ codec' = [codec EXCEPT !.eof = TRUE, !.is_readable = TRUE]
    /\ UNCHANGED <<input, stream, fast, resolver>>

\* FramedRead calls decode while the buffer is readable; a chunk is passed
\* on, None sends it back to reading.
CodecDecode ==
    /\ codec.pc = "run"
    /\ codec.is_readable /\ ~codec.eof
    /\ LET r == TranscoderDecode(codec.lead, codec.src)
       IN  codec' = [codec EXCEPT
                !.src = r.src, !.lead = r.lead,
                !.out = codec.out \o r.frame,
                !.frames = IF r.some THEN Append(codec.frames, r.frame) ELSE codec.frames,
                !.is_readable = r.some]
    /\ UNCHANGED <<input, stream, fast, resolver>>

\* At the end of the source FramedRead calls decode_eof until it yields
\* None, which ends the stream.
CodecDecodeEof ==
    /\ codec.pc = "run"
    /\ codec.is_readable /\ codec.eof
    /\ LET r == TranscoderDecodeEof(codec.lead, codec.src)
       IN  codec' = [codec EXCEPT
                !.src = r.src, !.lead = r.lead,
                !.out = codec.out \o r.frame,
                !.frames = IF r.some THEN Append(codec.frames, r.frame) ELSE codec.frames,
                !.is_readable = r.some,
                !.eof_calls = codec.eof_calls + 1,
                !.pc = IF r.some THEN "run" ELSE "done"]
    /\ UNCHANGED <<input, stream, fast, resolver>>

\* --------------------------------------------------------- specifications

IdleFast == [StartFast EXCEPT !.pc = "idle"]

\* The exhaustive files, through either path.
InitStream ==
    /\ \E format \in Formats, plain \in Files, required \in RequiredLists :
          input = [mode |-> "stream", name |-> FileName(format), plain |-> plain,
                   disk |-> Compress(format, plain), required |-> required,
                   cores |-> 1, verify |-> FALSE, limit |-> None]
    /\ stream = [IdleStream EXCEPT !.pc = "start"]
    /\ fast = IdleFast
    /\ resolver = IdleResolver
    /\ codec = IdleCodec

InitFast ==
    /\ \E plain \in Files, required \in RequiredLists, cores \in 1..MaxCores,
          verify \in BOOLEAN :
          input = [mode |-> "fast", name |-> FileName("none"), plain |-> plain,
                   disk |-> plain, required |-> required,
                   cores |-> cores, verify |-> verify, limit |-> None]
    /\ stream = IdleStream
    /\ fast = StartFast
    /\ resolver = IdleResolver
    /\ codec = IdleCodec

Init == InitStream \/ InitFast

Next ==
    \/ StreamOpen
    \/ StreamHeaders
    \/ StreamResolve
    \/ StreamReadRow
    \/ StreamFinish
    \/ FastHeader
    \/ FastPartition
    \/ FastSpawn
    \/ \E w \in 1..MaxCores : WorkerScan(w)
    \/ \E w \in 1..MaxCores : WorkerXor(w)
    \/ FastJoin

Spec == Init /\ [][Next]_vars

\* A generated file, through the streaming path and then the fast path.
GenNames == {<<"s", "k", "u">>, <<"c", "o", "l", "1">>, <<"c", "o", "l", "2">>}

GenRequiredLists ==
    {<<>>} \cup {<<n>> : n \in GenNames}
           \cup {<<n, m>> : n \in GenNames, m \in GenNames}

InitGen ==
    /\ \E rows \in 0..MaxRows, cols \in 0..MaxCols, with_header \in BOOLEAN,
          required \in GenRequiredLists, cores \in 1..MaxCores :
          LET plain == GenFile(rows, cols, with_header, <<Comma>>)
          IN  input = [mode |-> "both", name |-> FileName("none"), plain |-> plain,
                       disk |-> plain, required |-> required,
                       cores |-> cores, verify |-> FALSE, limit |-> None]
    /\ stream = [IdleStream EXCEPT !.pc = "start"]
    /\ fast = StartFast
    /\ resolver = IdleResolver
    /\ codec = IdleCodec

\* No checksum is asked for, so no worker folds one.
NextGen ==
    \/ StreamOpen
    \/ StreamHeaders
    \/ StreamResolve
    \/ StreamReadRow
    \/ StreamFinish
    \/ FastHeader
    \/ FastPartition
    \/ FastSpawn
    \/ \E w \in 1..MaxCores : WorkerScan(w)
    \/ FastJoin

SpecGen == InitGen /\ [][NextGen]_vars

\* A generated file through the fast path, with or without the checksum:
\* files long enough for several workers to scan rows.
InitGenFast ==
    /\ \E rows \in 0..MaxRows, cols \in 0..MaxCols, with_header \in BOOLEAN,
          required \in GenRequiredLists, cores \in 1..MaxCores, verify \in BOOLEAN :
          LET plain == GenFile(rows, cols, with_header, <<Comma>>)
          IN  input = [mode |-> "fast", name |-> FileName("none"), plain |-> plain,
                       disk |-> plain, required |-> required,
                       cores |-> cores, verify |-> verify, limit |-> None]
    /\ stream = IdleStream
    /\ fast = StartFast
    /\ resolver = IdleResolver
    /\ codec = IdleCodec

NextGenFast ==
    \/ FastHeader
    \/ FastPartition
    \/ FastSpawn
    \/ \E w \in 1..MaxCores : WorkerScan(w)
    \/ \E w \in 1..MaxCores : WorkerXor(w)
    \/ FastJoin

SpecGenFast == InitGenFast /\ [][NextGenFast]_vars

\* The strict verifier of the bench tool on the exhaustive files.
Limits == {None} \cup {Some(n) : n \in 0..MaxLimit}

InitVerify ==
    /\ \E plain \in Files, required \in RequiredLists, limit \in Limits :
          input = [mode |-> "verify", name |-> FileName("none"), plain |-> plain,
                   disk |-> plain, required |-> required,
                   cores |-> 1, verify |-> TRUE, limit |-> limit]
    /\ stream = [IdleStream EXCEPT !.pc = "start"]
    /\ fast = IdleFast
    /\ resolver = IdleResolver
    /\ codec = IdleCodec

NextVerify ==
    \/ VerifyOpen
    \/ VerifyHeaders
    \/ VerifyResolve
    \/ VerifyReadRow
    \/ VerifyFinish

SpecVerify == InitVerify /\ [][NextVerify]_vars

\* The fast path under a row limit (limit_rows), on the exhaustive files,
\* counting only.
InitLimit ==
    /\ \E plain \in Files, required \in RequiredLists, cores \in 1..MaxCores,
          limit \in Limits :
          input = [mode |-> "fast", name |-> FileName("none"), plain |-> plain,
                   disk |-> plain, required |-> required,
                   cores |-> cores, verify |-> FALSE, limit |-> limit]
    /\ stream = IdleStream
    /\ fast = StartFast
    /\ resolver = IdleResolver
    /\ codec = IdleCodec

NextLimit ==
    \/ FastHeader
    \/ FastPartition
    \/ FastSpawn
    \/ \E w \in 1..MaxCores : WorkerScan(w)
    \/ FastJoin

SpecLimit == InitLimit /\ [][NextLimit]_vars

\* The metadata resolver on caller-supplied hints.
ContentEncodings ==
    {<<>>, Str_gzip, Str_zstd,
     <<"G", "Z", "I", "P">>,
     <<"g", "z", "i", "p", ",", " ", "z", "s", "t", "d">>,
     <<"i", "d", "e", "n", "t", "i", "t", "y", ",", " ", "z", "s", "t", "d", " ">>,
     <<"b", "r">>}

ContentTypes ==
    {<<>>, Str_text_csv, Str_application_gzip, Str_application_x_gzip,
     Str_application_zstd,
     <<"A", "p", "p", "l", "i", "c", "a", "t", "i", "o", "n", "/", "Z", "s", "t", "d">>}

NameHints ==
    {<<>>, FileName("none"), FileName("gzip"), FileName("zstd"),
     <<"t", ".", "G", "Z">>}

InitMeta ==
    /\ \E ce \in ContentEncodings, ct \in ContentTypes, name \in NameHints,
          charset \in {UTF_8, SHIFT_JIS} :
          resolver = StartResolver([content_type |-> ct, content_encoding |-> ce,
                                    name_hint |-> name, charset |-> charset])
    /\ input = IdleInput
    /\ stream = IdleStream
    /\ fast = IdleFast
    /\ codec = IdleCodec

NextMeta == BuildCsvReader

SpecMeta == InitMeta /\ [][NextMeta]_vars

\* The transcoder under FramedRead, on every byte stream and every delivery.
CodecInputs == UNION {[1..n -> CodecBytes] : n \in 0..MaxCodecLen}

InitCodec ==
    /\ \E bytes \in CodecInputs : codec = StartCodec(bytes)
    /\ input = IdleInput
    /\ stream = IdleStream
    /\ fast = IdleFast
    /\ resolver = IdleResolver

NextCodec ==
    \/ \E n \in 1..MaxCodecLen : CodecRead(n)
    \/ CodecReadEof
    \/ CodecDecode
    \/ CodecDecodeEof

SpecCodec == InitCodec /\ [][NextCodec]_vars

\* ------------------------------------------------------------- properties
\* The vocabulary of the properties is defined on the file's bytes, apart
\* from the state machine.

\* The lines of a file: its pieces between line breaks, without the empty
\* piece that follows a final line break.
FileLines(plain) ==
    LET pieces == SplitOn(plain, LF)
    IN  IF plain # <<>> /\ plain[Len(plain)] = LF
        THEN SubSeq(pieces, 1, Len(pieces) - 1)
        ELSE pieces

HeaderRow(plain) == SplitOn(Head(FileLines(plain)), Comma)

Occurs(name, row) == \E k \in 1..Len(row) : row[k] = name

\* A well-formed file for a required list: a header line and rows, none of
\* them empty, the required names in the header, and every row reaching the
\* column of every required name (as every row of a rectangular file does).
WellFormed(plain, required) ==
    LET lines == FileLines(plain)
    IN  /\ \A i \in 1..Len(lines) : lines[i] # <<>>
        /\ \A j \in 1..Len(required) : Occurs(required[j], HeaderRow(plain))
        /\ \A i \in 2..Len(lines), j \in 1..Len(required) :
              Len(SplitOn(lines[i], Comma)) > Position(HeaderRow(plain), required[j])

\* C1: on the streaming path (reader_from_path, then process_csv_stream), a
\* well-formed file, plain or compressed and named as such, whose header
\* holds every required name yields Ok with row_count the number of lines
\* after the header and headers the header line's fields in their order.
C1_StreamCountsRows ==
    (/\ input.mode = "stream"
     /\ stream.pc = "done"
     /\ WellFormed(input.plain, input.required))
    => stream.result = Ok(Len(FileLines(input.plain)) - 1, HeaderRow(input.plain))

\* C1 happens: a gzip file of a header and two rows, a name required.
C1_Witness ==
    /\ input.mode = "stream"
    /\ stream.pc = "done"
    /\ WellFormed(input.plain, input.required)
    /\ input.name = FileName("gzip")
    /\ input.required # <<>>
    /\ stream.result.tag = "Ok"
    /\ stream.result.row_count = 2

\* The first name of required, in its order, that is not in headers.
FirstAbsentName(headers, required) ==
    required[CHOOSE i \in 1..Len(required) :
                /\ ~Occurs(required[i], headers)
                /\ \A j \in 1..(i - 1) : Occurs(required[j], headers)]

SomeAbsent(headers, required) ==
    \E i \in 1..Len(required) : ~Occurs(required[i], headers)

\* The streaming path once the header row is parsed and lacks a required
\* name: it has failed with the first absent name and has read no row.
StreamFailsOnAbsent ==
    (/\ input.mode = "stream"
     /\ stream.pc \in {"rows", "done"}
     /\ SomeAbsent(stream.headers, input.required))
    => /\ stream.pc = "done"
       /\ stream.result = Err(MissingHeader(FirstAbsentName(stream.headers, input.required)))
       /\ stream.rows_read = 0

\* The same of the fast path, for the files in `files`: no worker exists.
FastFailsOnAbsent(files) ==
    (/\ input.mode = "fast"
     /\ fast.pc \notin {"idle", "start"}
     /\ input.disk \in files
     /\ SomeAbsent(FastHeaders(input.disk), input.required))
    => /\ fast.pc = "done"
       /\ fast.result = Err(MissingHeader(FirstAbsentName(FastHeaders(input.disk),
                                                          input.required)))
       /\ fast.workers = <<>>

\* C2, as amended: on the streaming path for every file, and on the fast
\* path for every file of at least one byte (header-only files included),
\* a required name that is not in the parsed header row makes the call fail
\* with MissingHeader of the first absent name in the caller's order, before
\* any row is read and before any worker is created.
C2_AbsentHeaderFails ==
    /\ StreamFailsOnAbsent
    /\ FastFailsOnAbsent(Files \ {<<>>})

\* C2 happens: the fast path fails on a header-only file whose header holds
\* the first required name and not the second.
C2_Witness ==
    /\ input.mode = "fast"
    /\ fast.pc = "done"
    /\ input.disk # <<>>
    /\ Len(input.required) = 2
    /\ Occurs(input.required[1], FastHeaders(input.disk))
    /\ ~Occurs(input.required[2], FastHeaders(input.disk))
    /\ fast.result = Err(MissingHeader(input.required[2]))
    /\ fast.workers = <<>>

\* C2 as stated: the same on both paths for every file, the empty one
\* included.
C2_AsStated ==
    /\ StreamFailsOnAbsent
    /\ FastFailsOnAbsent(Files)

\* C3: for every file the generator writes (at least its header line or a
\* row) and one required list, process_csv_stream and fast_local_process,
\* with any number of chunks and no limit, return the same result: the same
\* row_count and the same headers, or the same error.
C3_PathsAgree ==
    (/\ input.mode = "both"
     /\ stream.pc = "done"
     /\ fast.pc = "done"
     /\ input.plain # <<>>)
    => /\ fast.result.tag = stream.result.tag
       /\ fast.result.row_count = stream.result.row_count
       /\ fast.result.headers = stream.result.headers
       /\ fast.result.error = stream.result.error

\* C3 happens: a generated file of three rows, a name required, went through
\* the streaming path and through two workers that each counted a row.
C3_Witness ==
    /\ input.mode = "both"
    /\ stream.pc = "done"
    /\ fast.pc = "done"
    /\ input.required # <<>>
    /\ ~input.verify
    /\ stream.result.tag = "Ok"
    /\ stream.result.row_count = 3
    /\ fast.result.row_count = 3
    /\ Len(fast.workers) = 2
    /\ \A w \in 1..2 : fast.workers[w].count >= 1

\* The number of line breaks in s.
LineBreaks(s) == Cardinality({i \in 1..Len(s) : s[i] = LF})

\* What follows the first line break of a file.
BodyOf(data) ==
    IF \E i \in 1..Len(data) : data[i] = LF
    THEN SubSeq(data, FirstIndex(data, LF) + 1, Len(data))
    ELSE <<>>

\* C4: on the fast path without a limit, whatever the number of chunks, a
\* successful call returns as row_count the number of line breaks of the
\* body, plus one when the body is not empty and does not end in a line
\* break; so a header-only file gives 0 and an unterminated last row is
\* counted once.
C4_CountsUnterminatedRow ==
    (/\ input.mode = "fast"
     /\ fast.pc = "done"
     /\ fast.result.tag = "Ok"
     /\ input.disk # <<>>
     /\ ~input.limit.some)
    => LET body == BodyOf(input.disk)
       IN  fast.result.row_count =
               LineBreaks(body)
               + (IF body # <<>> /\ body[Len(body)] # LF THEN 1 ELSE 0)

\* C4 happens: two workers, a body of a terminated row and an unterminated
\* one.
C4_Witness ==
    /\ input.mode = "fast"
    /\ fast.pc = "done"
    /\ fast.result.tag = "Ok"
    /\ Len(fast.workers) = 2
    /\ LineBreaks(BodyOf(input.disk)) = 1
    /\ input.disk[Len(input.disk)] # LF
    /\ fast.result.row_count = 2

\* C5 as stated: a zero-byte file gives Ok with row_count 0 and no headers
\* on both paths, and on the fast path no checksum, even when one is asked
\* for, and no worker.
C5_AsStated ==
    /\ (input.mode = "stream" /\ stream.pc = "done" /\ input.disk = <<>>)
       => stream.result = Ok(0, <<>>)
    /\ (input.mode = "fast" /\ fast.pc = "done" /\ input.disk = <<>>)
       => /\ fast.result = Ok(0, <<>>)
          /\ fast.crc = NoCrc
          /\ fast.workers = <<>>

\* The records of a file as a reader of comma-separated lines sees them:
\* the fields of its non-empty lines, the header's first.
Records(plain) ==
    LET lines == SelectSeq(FileLines(plain), LAMBDA l : l # <<>>)
    IN  [i \in 1..Len(lines) |-> SplitOn(lines[i], Comma)]

\* The required names whose column (the first one of that name) the row
\* does not reach.
LackedNames(row, headers, required) ==
    {required[j] : j \in {i \in 1..Len(required) :
                            Len(row) <= Position(headers, required[i])}}

\* The number, counted from 1 after the header, of the first row that lacks
\* a required column; 0 when there is none.
FirstLackingRow(plain, required) ==
    LET recs == Records(plain)
        bad == {k \in 1..(Len(recs) - 1) :
                    LackedNames(recs[k + 1], recs[1], required) # {}}
    IN  IF bad = {} THEN 0 ELSE CHOOSE k \in bad : \A m \in bad : k <= m

\* C6 as stated: process_csv_stream, at the first row that has no field at
\* a required column, stops there (no later row is read, no summary is
\* returned) with an error that gives the number of that row, counted from
\* 1, and the name of the header whose field is missing.
C6_AsStated ==
    (/\ input.mode = "stream"
     /\ stream.pc = "done"
     /\ Records(input.plain) # <<>>
     /\ ~SomeAbsent(Records(input.plain)[1], input.required)
     /\ FirstLackingRow(input.plain, input.required) > 0)
    => LET k == FirstLackingRow(input.plain, input.required)
           recs == Records(input.plain)
       IN  /\ stream.result.tag = "Err"
           /\ stream.rows_read = k
           /\ stream.result.error.name
                \in LackedNames(recs[k + 1], recs[1], input.required)
           /\ stream.result.error.row = k

\* C7 as stated: fast_local_process fails, instead of returning a summary,
\* when a row of the body has fewer fields than a required column needs.
C7_AsStated ==
    (/\ input.mode = "fast"
     /\ fast.pc = "done"
     /\ input.disk # <<>>
     /\ ~SomeAbsent(FastHeaders(input.disk), input.required)
     /\ \E k \in 1..Len(FileLines(BodyOf(input.disk))) :
           LET line == FileLines(BodyOf(input.disk))[k]
           IN  /\ line # <<>>
               /\ LackedNames(SplitOn(line, Comma), FastHeaders(input.disk),
                              input.required) # {})
    => fast.result.tag = "Err"

\* The format a signal names: gzip before zstd.
FormatOf(gzip, zstd) == IF gzip THEN "gzip" ELSE IF zstd THEN "zstd" ELSE "none"

\* The choice by precedence: the content-encoding tokens decide when one of
\* them names a format, else the content type, else the name's extension.
PrecedenceChoice(meta) ==
    LET ce == ToAsciiLowercase(meta.content_encoding)
        ct == ToAsciiLowercase(meta.content_type)
        by_encoding == FormatOf(HasToken(ce, Str_gzip), HasToken(ce, Str_zstd))
        by_type == FormatOf(ct \in {Str_application_gzip, Str_application_x_gzip},
                            ct = Str_application_zstd)
        by_name == FormatOf(EndsWith(meta.name_hint, Str_dot_gz),
                            EndsWith(meta.name_hint, Str_dot_zst))
    IN  IF by_encoding # "none" THEN by_encoding
        ELSE IF by_type # "none" THEN by_type
        ELSE by_name

\* C8 as stated: build_csv_reader chooses the decompression by the
\* precedence content-encoding token, then content type, then extension of
\* the name; gzip wins over zstd only within one level.
C8_AsStated ==
    resolver.pc = "done" => resolver.choice = PrecedenceChoice(resolver.meta)

\* C9 as stated: when a byte stream ends inside a two-byte sequence, however
\* it was delivered, the end of the stream flushes the decoder: the whole
\* output is what the complete part decodes to followed by U+FFFD.
C9_AsStated ==
    (/\ codec.pc = "done"
     /\ DecodeToUtf8(FALSE, codec.bytes, FALSE).lead)
    => codec.out = DecodeToUtf8(FALSE, codec.bytes, FALSE).out \o Replacement

\* The rows verify_and_count read whose width is not the header's.
WrongWidthRows ==
    {k \in 1..stream.rows_read :
        Len(Records(input.plain)[k + 1]) # Len(Records(input.plain)[1])}

\* C10: when a row verify_and_count read has not the header's number of
\* fields, the call has failed at the first such row with an error that
\* carries that row's number (counted from 1), the header's width and the
\* row's width; it returned no summary and read no later row.
C10_WidthMismatchAborts ==
    (/\ input.mode = "verify"
     /\ stream.pc = "done"
     /\ WrongWidthRows # {})
    => LET k == CHOOSE k \in WrongWidthRows : \A m \in WrongWidthRows : k <= m
       IN  /\ stream.result.tag = "Err"
           /\ stream.result.error.row = k
           /\ stream.result.error.expected = Len(Records(input.plain)[1])
           /\ stream.result.error.actual = Len(Records(input.plain)[k + 1])
           /\ stream.rows_read = k

\* C10 happens: under a limit of 2 the first row passes and the second is
\* wider than the header.
C10_Witness ==
    /\ input.mode = "verify"
    /\ stream.pc = "done"
    /\ input.limit = Some(2)
    /\ WrongWidthRows = {2}
    /\ stream.result.tag = "Err"
    /\ stream.result.error.row = 2
    /\ stream.result.error.expected = 1
    /\ stream.result.error.actual = 2

\* A file of valid rows for a required list: a header that holds every
\* required name, and rows of the header's width.
ValidRows(plain, required) ==
    /\ Records(plain) # <<>>
    /\ ~SomeAbsent(Records(plain)[1], required)
    /\ \A k \in 2..Len(Records(plain)) :
          Len(Records(plain)[k]) = Len(Records(plain)[1])

\* The smaller of two numbers.
Smaller(a, b) == IF a <= b THEN a ELSE b

\* The fields of a row, a unit separator between two of them.
RECURSIVE JoinFields(_)
JoinFields(row) ==
    IF Len(row) <= 1
    THEN (IF row = <<>> THEN <<>> ELSE row[1])
    ELSE JoinFields(SubSeq(row, 1, Len(row) - 1)) \o <<UnitSeparator>> \o row[Len(row)]

\* What the first k rows after the header feed to the verifier's checksum.
RECURSIVE FoldedRows(_, _)
FoldedRows(recs, k) ==
    IF k = 0 THEN <<>> ELSE FoldedRows(recs, k - 1) \o JoinFields(recs[k + 1])

\* C11 as stated: verify_and_count under a limit L >= 0, 0 included, on n
\* valid rows returns row_count = min(L, n), and reads, validates and folds
\* into the checksum no row beyond the L-th.
C11_AsStated ==
    (/\ input.mode = "verify"
     /\ stream.pc = "done"
     /\ input.limit.some
     /\ ValidRows(input.plain, input.required))
    => LET recs == Records(input.plain)
           m == Smaller(input.limit.val, Len(recs) - 1)
       IN  /\ stream.result = Ok(m, recs[1])
           /\ stream.rows_read = m
           /\ stream.crc = FoldedRows(recs, m)

\* What the worker of the n-th chunk computes on its own: the count and the
\* bytes fed to its hasher.
ChunkResult(n) ==
    ScanChunk(Slice(input.disk, fast.starts[n], fast.starts[n + 1]),
              fast.required_indices, input.verify, input.limit)

\* The sum of the counts of the first n workers that have added theirs.
RECURSIVE AddedCounts(_)
AddedCounts(n) ==
    IF n = 0
    THEN 0
    ELSE AddedCounts(n - 1)
         + (IF fast.workers[n].pc # "scan" THEN ChunkResult(n).count ELSE 0)

\* The fold of the digests of the first n workers that have folded theirs.
RECURSIVE FoldedDigests(_)
FoldedDigests(n) ==
    IF n = 0
    THEN Zero32
    ELSE LET rest == FoldedDigests(n - 1)
         IN  IF input.verify /\ fast.workers[n].pc = "done"
             THEN XorBits(rest, Crc32(ChunkResult(n).fed))
             ELSE rest

\* C12: on the fast path, in every interleaving of the workers, the shared
\* totals hold each worker's count and each worker's digest exactly once
\* (the count once it was added, the digest once it was folded); the totals
\* are read when every chunk's worker has finished, so row_count and the
\* checksum returned are those of the file, the options and the partition,
\* whatever the schedule.
C12_ScheduleIndependent ==
    (input.mode = "fast" /\ fast.pc \in {"spawn", "done"} /\ fast.starts # <<>>)
    => /\ fast.total = AddedCounts(Len(fast.workers))
       /\ fast.crc_total = FoldedDigests(Len(fast.workers))
       /\ fast.pc = "done"
          => /\ Len(fast.workers) = Len(fast.starts) - 1
             /\ \A w \in 1..Len(fast.workers) : fast.workers[w].pc = "done"
             /\ fast.result.row_count
                    = AddedCounts(Len(fast.workers)) + TailRows(input.disk)
             /\ fast.crc = IF input.verify
                           THEN Some(FoldedDigests(Len(fast.workers)))
                           ELSE NoCrc

\* C12 happens: two workers that each counted rows and folded a digest of
\* their own, the second one first.
C12_Witness ==
    /\ input.mode = "fast"
    /\ input.verify
    /\ fast.pc = "spawn"
    /\ Len(fast.workers) = 2
    /\ fast.workers[1].pc = "xor"
    /\ fast.workers[2].pc = "done"
    /\ fast.workers[1].count >= 1
    /\ fast.workers[2].count >= 1
    /\ Crc32(fast.workers[1].fed) # Crc32(fast.workers[2].fed)
    /\ fast.crc_total = Crc32(fast.workers[2].fed)
    /\ fast.crc_total # Zero32

\* C13: once the fast path has partitioned the file, the boundaries start at
\* body_start and end at the file length, never decrease, delimit at most
\* `cores` chunks, and every interior boundary is the file length or the
\* offset right after a line break.
C13_PartitionInvariant ==
    (input.mode = "fast" /\ fast.pc \in {"spawn", "done"} /\ fast.starts # <<>>)
    => LET starts == fast.starts
           data == input.disk
           k == Len(starts)
       IN  /\ k >= 2
           /\ starts[1] = BodyStart(data)
           /\ starts[k] = Len(data)
           /\ \A i \in 1..(k - 1) : starts[i] <= starts[i + 1]
           /\ k - 1 <= input.cores
           /\ \A i \in 2..(k - 1) :
                \/ starts[i] = Len(data)
                \/ starts[i] >= 1 /\ data[starts[i]] = LF

\* C13 happens: a first line longer than the even split, so that the interior
\* boundary was moved forward to the start of the next line, inside the file.
C13_Witness ==
    /\ input.mode = "fast"
    /\ fast.pc = "spawn"
    /\ Len(fast.starts) = 3
    /\ fast.starts[1] < fast.starts[2]
    /\ fast.starts[2] < Len(input.disk)
    /\ fast.starts[2] - fast.starts[1] > Len(input.disk) \div input.cores
    /\ input.disk[fast.starts[2]] = LF

\* The rows the fast path counts: the lines after the header line, the
\* unterminated last one included.
CountedRows(data) ==
    IF FileLines(data) = <<>> THEN <<>> ELSE Tail(FileLines(data))

\* The fields of a row at the required column indices, in column order.
RequiredFields(row, req) ==
    LET fields == SplitOn(row, Comma)
        at == {req[j] : j \in 1..Len(req)}
        RECURSIVE Pick(_)
        Pick(n) == IF n = 0 THEN <<>>
                   ELSE Pick(n - 1) \o (IF (n - 1) \in at THEN <<fields[n]>> ELSE <<>>)
    IN  Pick(Len(fields))

\* What the rows feed to a checksum when each feeds its required fields, a
\* unit separator between two fields of a row and nothing between rows.
RECURSIVE RequiredBytes(_, _)
RequiredBytes(rows, req) ==
    IF rows = <<>> THEN <<>>
    ELSE RequiredBytes(SubSeq(rows, 1, Len(rows) - 1), req)
         \o JoinFields(RequiredFields(rows[Len(rows)], req))

\* The bytes the first n workers fed to their hashers, in chunk order.
RECURSIVE FedBytes(_)
FedBytes(n) == IF n = 0 THEN <<>> ELSE FedBytes(n - 1) \o fast.workers[n].fed

\* C14 as stated: on the fast path with verification and no limit, every row
\* counted in row_count, the unterminated last row included, has the bytes of
\* its required columns fed to a chunk's checksum, in column order, a 0x1F
\* between two fields of a row and nothing between rows.
C14_AsStated ==
    (/\ input.mode = "fast"
     /\ fast.pc = "done"
     /\ fast.result.tag = "Ok"
     /\ input.disk # <<>>
     /\ input.verify
     /\ ~input.limit.some)
    => /\ fast.result.row_count = Len(CountedRows(input.disk))
       /\ FedBytes(Len(fast.workers))
              = RequiredBytes(CountedRows(input.disk), fast.required_indices)

\* a / b rounded up.
CeilDiv(a, b) == (a + b - 1) \div b

\* C15 as stated: on the fast path with a limit L and N chunks, each chunk
\* stops at its proportional share of the limit, L / N rows rounded up, not
\* at the full L, so that the summed row_count stays about L (less than one
\* row per chunk for the rounding, and the unterminated last row) and does
\* not grow to N * L.
C15_AsStated ==
    (/\ input.mode = "fast"
     /\ fast.pc = "done"
     /\ fast.result.tag = "Ok"
     /\ input.limit.some
     /\ input.limit.val >= 1
     /\ fast.workers # <<>>)
    => LET n == Len(fast.workers)
           share == CeilDiv(input.limit.val, n)
       IN  /\ \A w \in 1..n : fast.workers[w].count <= share
           /\ fast.result.row_count <= input.limit.val + n

\* The row count of the same call without a limit.
UnlimitedRowCount ==
    LET RECURSIVE Sum(_)
        Sum(n) == IF n = 0 THEN 0
                  ELSE Sum(n - 1)
                       + ScanChunk(Slice(input.disk, fast.starts[n], fast.starts[n + 1]),
                                   fast.required_indices, input.verify, None).count
    IN  Sum(Len(fast.starts) - 1) + TailRows(input.disk)

\* C19: on the fast path with a limit L >= 1 and k chunks, each worker
\* counts at most L rows, and stops at L when its chunk holds more; so
\* row_count is at most k * L + 1, and never more than the row count of the
\* same call without a limit.
C19_LimitPerWorker ==
    (/\ input.mode = "fast"
     /\ fast.pc = "done"
     /\ fast.result.tag = "Ok"
     /\ input.limit.some
     /\ input.limit.val >= 1
     /\ fast.starts # <<>>)
    => LET k == Len(fast.starts) - 1
           L == input.limit.val
       IN  /\ \A w \in 1..k :
                fast.workers[w].count
                    = Smaller(L, LineBreaks(Slice(input.disk, fast.starts[w],
                                                  fast.starts[w + 1])))
           /\ fast.result.row_count <= k * L + 1
           /\ fast.result.row_count <= UnlimitedRowCount

\* C19 happens: two workers that each counted up to the limit, the first one
\* in a chunk that holds more rows, so that row_count is above the limit and
\* below the unlimited count.
C19_Witness ==
    /\ input.mode = "fast"
    /\ fast.pc = "done"
    /\ fast.result.tag = "Ok"
    /\ input.limit.some
    /\ input.limit.val >= 1
    /\ Len(fast.workers) = 2
    /\ \A w \in 1..2 : fast.workers[w].count = input.limit.val
    /\ LineBreaks(Slice(input.disk, fast.starts[1], fast.starts[2])) > input.limit.val
    /\ fast.result.row_count > input.limit.val
    /\ fast.result.row_count < UnlimitedRowCount

\* C16: process_csv_stream (lenient) rejects no row for its shape. When the
\* header holds every required name and every record after it has a field
\* at every required column index, whatever the records' widths, the call
\* succeeds, has read every record once, and returns as row_count the
\* number of records after the header; and whenever it succeeds, row_count
\* is that number.
C16_LenientAcceptsShapes ==
    (input.mode = "stream" /\ stream.pc = "done")
    => LET recs == Records(input.plain)
           after == IF recs = <<>> THEN 0 ELSE Len(recs) - 1
       IN  /\ (/\ recs # <<>>
               /\ ~SomeAbsent(recs[1], input.required)
               /\ FirstLackingRow(input.plain, input.required) = 0)
              => /\ stream.result = Ok(after, recs[1])
                 /\ stream.rows_read = after
           /\ stream.result.tag = "Ok" => stream.result.row_count = after

\* C16 happens: a required name, a row narrower than the header that still
\* has the required field, and a successful call that counted it.
C16_Witness ==
    /\ input.mode = "stream"
    /\ stream.pc = "done"
    /\ input.required # <<>>
    /\ stream.result.tag = "Ok"
    /\ stream.result.row_count >= 1
    /\ \E k \in 2..Len(Records(input.plain)) :
          Len(Records(input.plain)[k]) < Len(Records(input.plain)[1])

\* What the transcoder emits when the whole input arrives in one chunk:
\* one decode, then decode_eof on what decode left in the buffer.
OneChunk(bytes) ==
    LET d == TranscoderDecode(FALSE, bytes)
        e == TranscoderDecodeEof(d.lead, d.src)
    IN  d.frame \o e.frame

\* The bytes of the input that decode has taken out of the buffer so far.
Consumed ==
    SubSeq(codec.bytes, 1, Len(codec.bytes) - Len(codec.src) - Len(codec.remaining))

\* C17: however the input is split into chunks, the buffer and the source
\* hold exactly the bytes not yet consumed, in order (none consumed twice,
\* none lost between calls); what was emitted so far and the decoder's
\* pending state are those of one decoding of the consumed bytes; decode on
\* an empty buffer emits nothing; and at the end of the stream all that was
\* emitted, concatenated, is what is emitted when the whole input is
\* supplied in one chunk.
C17_ChunkBoundarySafe ==
    codec.pc \in {"run", "done"}
    => /\ codec.bytes = Consumed \o codec.src \o codec.remaining
       /\ DecodeToUtf8(FALSE, Consumed, FALSE) = [out |-> codec.out, lead |-> codec.lead]
       /\ ~TranscoderDecode(codec.lead, <<>>).some
       /\ TranscoderDecode(codec.lead, <<>>).frame = <<>>
       /\ codec.pc = "done"
          => /\ codec.src = <<>>
             /\ codec.remaining = <<>>
             /\ codec.out = OneChunk(codec.bytes)

\* C17 happens: the input was split between the lead byte and the trail
\* byte of a character; the first decode emitted an empty chunk, the second
\* one the character.
C17_Witness ==
    /\ codec.pc = "done"
    /\ Len(codec.bytes) >= 3
    /\ codec.bytes[1] = Lead
    /\ codec.bytes[2] = Trail
    /\ Len(codec.frames) >= 2
    /\ codec.frames[1] = <<>>
    /\ SubSeq(codec.frames[2], 1, 3) = DoubleByte(Trail)

\* A list without its repeated entries, the first occurrences kept.
RECURSIVE Dedup(_)
Dedup(seq) ==
    IF seq = <<>> THEN <<>>
    ELSE LET front == Dedup(SubSeq(seq, 1, Len(seq) - 1))
             x == seq[Len(seq)]
         IN  IF \E i \in 1..Len(front) : front[i] = x THEN front ELSE Append(front, x)

\* What fast_local_process returns for a file, a required list, a number of
\* cores and the verify flag, without a limit: the result and the checksum.
FastOutcome(data, required, cores, verify) ==
    LET headers == FastHeaders(data)
        req == SortAscending(RequiredIndices(headers, required))
        starts == ChunkStarts(data, cores)
        Chunk(n) == ScanChunk(Slice(data, starts[n], starts[n + 1]), req, verify, None)
        RECURSIVE Count(_)
        Count(n) == IF n = 0 THEN 0 ELSE Count(n - 1) + Chunk(n).count
        RECURSIVE Fold(_)
        Fold(n) == IF n = 0 THEN Zero32 ELSE XorBits(Fold(n - 1), Crc32(Chunk(n).fed))
    IN  IF data = <<>>
        THEN [result |-> Ok(0, <<>>), crc |-> NoCrc]
        ELSE IF Absent(headers, required) # {}
        THEN [result |-> Err(MissingHeader(FirstMissing(headers, required))),
              crc |-> NoCrc]
        ELSE [result |-> Ok(Count(Len(starts) - 1) + TailRows(data), headers),
              crc |-> IF verify THEN Some(Fold(Len(starts) - 1)) ELSE NoCrc]

\* C18: on the fast path, a required list that repeats a name gives the
\* result of the list without the repetition: the same row_count and
\* headers (or the same error) and the same checksum.
C18_DuplicatesChangeNothing ==
    (/\ input.mode = "fast"
     /\ fast.pc = "done"
     /\ ~input.limit.some
     /\ Dedup(input.required) # input.required)
    => [result |-> fast.result, crc |-> fast.crc]
          = FastOutcome(input.disk, Dedup(input.required), input.cores, input.verify)

\* C18 happens: a name required twice, a verified file with a row whose
\* field of that name was folded into a checksum.
C18_Witness ==
    /\ input.mode = "fast"
    /\ fast.pc = "done"
    /\ Len(input.required) = 2
    /\ input.required[1] = input.required[2]
    /\ input.verify
    /\ fast.result.tag = "Ok"
    /\ Len(fast.required_indices) = 2
    /\ fast.required_indices[1] = fast.required_indices[2]
    /\ fast.result.row_count >= 1
    /\ \E w \in 1..Len(fast.workers) : fast.workers[w].fed # <<>>
    /\ fast.crc.some
    /\ fast.crc.val # Zero32

====
